---- MODULE Spec2Model ----
(***************************************************************************)
(* Story generator backend: the credential rotation (getNextApiKey), the   *)
(* chunk planner (getChunkConfig), the call executor (callGeminiAPI) and   *)
(* the two generation endpoints (POST /api/generate-stream and POST        *)
(* /api/generate) of src/index.js, together with the call executor and     *)
(* planner of the second variant of the server, src/unnamed/part_000.      *)
(*                                                                         *)
(* Node runs every handler to its next await, so an action is one such     *)
(* run: the arrival of a request up to the first axios.post, the           *)
(* settlement of a post inside callGeminiAPI, the expiry of a backoff      *)
(* timer, and the resumption of the endpoint after callGeminiAPI settled.  *)
(***************************************************************************)
EXTENDS Integers, Sequences, FiniteSets, TLC

\* ------------------------------------------------------------------ bounds
MaxKeys == 2
MaxSessions == 1
MaxConcurrent == 2
MaxRequests == 2
MaxDelta == 5
MaxParts == 25
MaxRuns == 4
MaxMentions == 3

\* ------------------------------------------------------- program constants
KeySlots == 10
CHARS_PER_CHUNK == 5500
maxRetries == 3
\* extractCleanContext: texts below minContextText are returned as they are, the
\* window is the last contextWindow characters, and a sentence boundary is
\* looked for among its first sentenceSearch characters
minContextText == 100
contextWindow == 1500
sentenceSearch == 300
\* src/unnamed/part_000 extractCleanContext: a sentence counts when more than
\* minSentence characters long, and the last lastSentences of them are kept
minSentence == 20
lastSentences == 8
\* extractCharacterInfo: a name is kept when matched minMentions times, and the
\* maxCharacters most mentioned are returned
minMentions == 2
maxCharacters == 5


\* Texts the external service may generate (the generated-text field).
Texts == {"A", "B"}
\* What the texts hold, as runs of characters: A is 4000 characters with one
\* sentence end 1400 characters before its end, B is 5498 characters with none.
TextBody(t) ==
    IF t = "A"
    THEN <<[c |-> "x", n |-> 2600], [c |-> ".", n |-> 1], [c |-> " ", n |-> 1],
           [c |-> "x", n |-> 1398]>>
    ELSE IF t = "B" THEN <<[c |-> "x", n |-> 5498]>>
    ELSE <<>>
\* The capitalized words of the texts, in order (the matches of namePattern).
Matches(t) ==
    IF t = "A" THEN <<"Anna", "The", "Ben", "Anna", "Ben", "The", "Anna", "Cara">>
    ELSE IF t = "B" THEN <<"The", "Dara", "The">>
    ELSE <<>>

\* ---------------------------------------------------------------- state
VARIABLES
    variant,          \* which server file is running
    service,          \* the answers the external service gives in this run
    lengths,          \* the target lengths the clients ask for in this run
    closed,           \* per connection: the client has closed it
    apiKeys,          \* the loaded credentials, in slot order
    currentKeyIndex,  \* the rotation cursor
    limited,          \* credentials that received a 429 whose cooldown has not elapsed
    acquired,         \* the most recent getNextApiKey results, oldest first
    handed,           \* how many times getNextApiKey has returned each credential
    health,           \* the apiKeys count last reported by GET /api/health, -1 before
    requests,         \* generation requests received so far
    pc,               \* per session: idle, inflight, waiting, returned, threw, done
    mode,             \* per session: batch or stream
    valid,            \* per session: the request passed the field validation
    targetLength,     \* per session: the requested length
    config,           \* per session: the plan
    i,                \* per session: the loop index of the endpoint
    chunks,           \* per session: the texts generated so far
    prompt,           \* per session: the prompt of the call in progress
    characterTracker, \* per session: the names kept for the continuation prompts
    trackerRuns,      \* per session: calls of extractCharacterInfo made so far
    prompts,          \* per session: the prompts built so far, oldest first
    posts,            \* per session: axios.post calls made so far
    keysUsed,         \* per session: the credential of each post of the current callGeminiAPI
    apiKey,           \* per session: the credential passed to callGeminiAPI
    attempt,          \* per session: the loop index of callGeminiAPI
    sent,             \* per session: axios.post calls made by the current callGeminiAPI
    delays,           \* per session: backoff delays taken by the current callGeminiAPI
    responses,        \* per session: what the posts of the current callGeminiAPI settled with
    result,           \* per session: the text callGeminiAPI returned
    error,            \* per session: the error callGeminiAPI or getNextApiKey threw
    events,           \* per session: the SSE events written so far
    reply,            \* per session: the JSON response sent, if any
    planArg,          \* planner run: the requested length
    planOut,          \* planner run: the plan computed for it
    planDone,         \* planner run: the planner has been applied
    planStated,       \* planner run: the targets the prompt of each part of the plan states
    stagePart,        \* stage run: partNum
    stageTotal,       \* stage run: totalParts
    stageOut,         \* stage run: the directive returned
    stageDone,        \* stage run: getSectionGoal has been applied
    ctxIn,            \* context run: the text passed to extractCleanContext
    ctxOut,           \* context run: the excerpt returned
    ctxDone,          \* context run: extractCleanContext has been applied
    namesIn,          \* names run: the matches of namePattern in the text
    namesOut,         \* names run: the names returned
    namesDone         \* names run: extractCharacterInfo has been applied

\* what no handler writes: the parameters of the run and the client's end of
\* each connection
runVars  == <<variant, service, lengths, closed>>
poolVars == <<runVars, apiKeys, currentKeyIndex, limited, acquired, handed, health, requests>>
sessVars == <<pc, mode, valid, targetLength, config, i, chunks, prompt,
              characterTracker, trackerRuns, prompts, posts>>
callVars == <<apiKey, attempt, sent, delays, responses, result, error, keysUsed>>
outVars  == <<events, reply>>
planVars == <<planArg, planOut, planDone, planStated>>
stageVars == <<stagePart, stageTotal, stageOut, stageDone>>
\* the runs of the pure functions
ctxVars == <<ctxIn, ctxOut, ctxDone>>
nameVars == <<namesIn, namesOut, namesDone>>
funVars == <<planVars, stageVars, ctxVars, nameVars>>

\* The connections of this run.
Sessions == DOMAIN pc

vars == <<poolVars, sessVars, callVars, outVars, funVars>>

\* ------------------------------------------------------------ credentials
\* The numbered slots of the environment that hold a key: the pool loaded at start.
LoadedPools == {[k \in 1..n |-> k] : n \in {m \in 0..MaxKeys : m <= KeySlots}}

\* currentKeyIndex = (currentKeyIndex + 1) % apiKeys.length, skipping a slot
nextKeyIndexSkip(idx, n) == (idx + 2) % n

\* the cursor written back as it was read
nextKeyIndexLost(idx, n) == idx

\* currentKeyIndex = (currentKeyIndex + 1) % apiKeys.length
nextKeyIndex(idx, n) == (idx + 1) % n

\* getNextApiKey without the empty-pool test: apiKeys[0] is undefined (0) and is returned
getNextApiKeyUnchecked(keys, idx) ==
    IF Len(keys) = 0
    THEN [ok |-> TRUE, key |-> 0, next |-> idx]
    ELSE [ok |-> TRUE, key |-> keys[idx + 1], next |-> nextKeyIndex(idx, Len(keys))]

\* getNextApiKey: throws on an empty pool, else returns the key under the cursor
\* and advances the cursor.  key 0 stands for no key.
getNextApiKey(keys, idx) ==
    IF Len(keys) = 0
    THEN [ok |-> FALSE, key |-> 0, next |-> idx]
    ELSE [ok |-> TRUE, key |-> keys[idx + 1], next |-> nextKeyIndex(idx, Len(keys))]

\* ---------------------------------------------------------------- planner
\* getChunkConfig with the fallback band sized as in the other variant
getChunkConfigBigFallback(len) ==
    IF len <= 10000 THEN [chunks |-> 2, charsPerChunk |-> 5500]
    ELSE IF len <= 30000 THEN [chunks |-> 6, charsPerChunk |-> 5500]
    ELSE IF len <= 60000 THEN [chunks |-> 12, charsPerChunk |-> 5500]
    ELSE IF len <= 100000 THEN [chunks |-> 20, charsPerChunk |-> 5500]
    ELSE [chunks |-> 3, charsPerChunk |-> 35000]

\* getChunkConfig without its else branch: no plan above the largest named band
getChunkConfigNoFallback(len) ==
    IF len <= 10000 THEN [chunks |-> 2, charsPerChunk |-> 5500]
    ELSE IF len <= 30000 THEN [chunks |-> 6, charsPerChunk |-> 5500]
    ELSE IF len <= 60000 THEN [chunks |-> 12, charsPerChunk |-> 5500]
    ELSE IF len <= 100000 THEN [chunks |-> 20, charsPerChunk |-> 5500]
    ELSE [chunks |-> 0, charsPerChunk |-> 0]

\* getChunkConfig with the band edges excluded from their bands
getChunkConfigOpenEdges(len) ==
    IF len < 10000 THEN [chunks |-> 2, charsPerChunk |-> 5500]
    ELSE IF len < 30000 THEN [chunks |-> 6, charsPerChunk |-> 5500]
    ELSE IF len < 60000 THEN [chunks |-> 12, charsPerChunk |-> 5500]
    ELSE IF len < 100000 THEN [chunks |-> 20, charsPerChunk |-> 5500]
    ELSE [chunks |-> 25, charsPerChunk |-> 5500]

\* getChunkConfig of src/index.js
getChunkConfig(len) ==
    IF len <= 10000 THEN [chunks |-> 2, charsPerChunk |-> 5500]
    ELSE IF len <= 30000 THEN [chunks |-> 6, charsPerChunk |-> 5500]
    ELSE IF len <= 60000 THEN [chunks |-> 12, charsPerChunk |-> 5500]
    ELSE IF len <= 100000 THEN [chunks |-> 20, charsPerChunk |-> 5500]
    ELSE [chunks |-> 25, charsPerChunk |-> 5500]

\* getChunkConfig of src/unnamed/part_000
getChunkConfig_part000(len) ==
    IF len <= 15000 THEN [chunks |-> 2, charsPerChunk |-> 6000]
    ELSE IF len <= 35000 THEN [chunks |-> 2, charsPerChunk |-> 15000]
    ELSE IF len <= 65000 THEN [chunks |-> 3, charsPerChunk |-> 20000]
    ELSE IF len <= 85000 THEN [chunks |-> 3, charsPerChunk |-> 25000]
    ELSE [chunks |-> 3, charsPerChunk |-> 35000]

planFor(v, len) ==
    IF v = "index.js" THEN getChunkConfig(len) ELSE getChunkConfig_part000(len)

NoPlan == [chunks |-> 0, charsPerChunk |-> 0]

\* What the service documents about its plans: documentation.targetLengths of
\* GET / and capabilities of GET /api/health, as chunks per requested length,
\* and the "20+ chunks" of the lengths from 100000 up.
targetLengths == (10000 :> 2) @@ (30000 :> 6) @@ (60000 :> 12) @@ (100000 :> 20)
capabilities == (10000 :> 2) @@ (30000 :> 6) @@ (60000 :> 12)
epicStoriesChunks == 20
\* "Write EXACTLY 5,500 characters for this chunk"
promptTarget == 5500

\* ---------------------------------------------------- the external service
\* What one axios.post settles with: a 2xx body whose generated-text field is
\* text ("" when absent or empty), a failure status, or no response at all
\* (code ECONNABORTED on the request timeout).
Ok(t)    == [status |-> 200, code |-> "", text |-> t]
Http(st) == [status |-> st, code |-> "", text |-> ""]
Timeout  == [status |-> 0, code |-> "ECONNABORTED", text |-> ""]

FailureStatuses == {400, 429, 500}
Responses ==
    {Ok(t) : t \in Texts \cup {""}} \cup {Http(st) : st \in FailureStatuses}
        \cup {Timeout}
\* The answers of a service that is never overloaded: it generates a text or
\* refuses the request with a 400.
SteadyResponses == {Ok(t) : t \in Texts} \cup {Http(400)}

\* ----------------------------------------------------------------- errors
NoCause == [kind |-> "none", status |-> 0, code |-> ""]
NoError == [kind |-> "none", status |-> 0, code |-> "", cause |-> NoCause]
\* new Error('No API keys configured')
NoKeysError == [kind |-> "NoKeys", status |-> 0, code |-> "", cause |-> NoCause]
\* new Error('Invalid response format from Gemini API')
InvalidFormatError == [kind |-> "InvalidFormat", status |-> 0, code |-> "", cause |-> NoCause]
\* the error axios rejects with: error.response.status or error.code is set
AxiosError(r) == [kind |-> "Axios", status |-> r.status, code |-> r.code, cause |-> NoCause]
\* new Error(`API call failed after ${maxRetries} attempts: ${error.message}`)
FailedAfterError(e) ==
    [kind |-> "FailedAfter", status |-> 0, code |-> "",
     cause |-> [kind |-> e.kind, status |-> e.status, code |-> e.code]]

\* attemptError with the test of the generated-text field inverted
attemptErrorInverted(r) ==
    IF r.status = 200
    THEN (IF r.text # "" THEN InvalidFormatError ELSE NoError)
    ELSE AxiosError(r)

\* The error one settled post raises inside the try block, NoError on success.
attemptError(r) ==
    IF r.status = 200
    THEN (IF r.text # "" THEN NoError ELSE InvalidFormatError)
    ELSE AxiosError(r)

\* ---------------------------------------------------------- call executor
Throw(e)  == [op |-> "throw", ms |-> 0, error |-> e]
Wait(ms)  == [op |-> "wait", ms |-> ms, error |-> NoError]

\* the catch block of callGeminiAPI without the test of the last attempt
callGeminiAPI_catch_noLastAttempt(att, e) ==
    IF e.status = 429 \/ e.code = "ECONNABORTED" THEN Wait(2000 * (att + 1))
    ELSE IF e.status >= 500 THEN Wait(3000)
    ELSE Throw(e)

\* the catch block of callGeminiAPI rethrowing the raw error on the last attempt
callGeminiAPI_catch_rethrowLast(att, e) ==
    IF att = maxRetries - 1 THEN Throw(e)
    ELSE IF e.status = 429 \/ e.code = "ECONNABORTED" THEN Wait(2000 * (att + 1))
    ELSE IF e.status >= 500 THEN Wait(3000)
    ELSE Throw(e)

\* the catch block of callGeminiAPI that retries whatever the error is
callGeminiAPI_catch_retryAll(att, e) ==
    IF att = maxRetries - 1 THEN Throw(FailedAfterError(e))
    ELSE IF e.status = 429 \/ e.code = "ECONNABORTED" THEN Wait(2000 * (att + 1))
    ELSE Wait(3000)

\* the catch block of callGeminiAPI in src/index.js, for the error e of attempt att
callGeminiAPI_catch(att, e) ==
    IF att = maxRetries - 1 THEN Throw(FailedAfterError(e))
    ELSE IF e.status = 429 \/ e.code = "ECONNABORTED" THEN Wait(2000 * (att + 1))
    ELSE IF e.status >= 500 THEN Wait(3000)
    ELSE Throw(e)

\* the catch block of callGeminiAPI in src/unnamed/part_000
callGeminiAPI_catch_part000(att, e) ==
    IF att = maxRetries - 1 THEN Throw(e)
    ELSE IF e.status = 429 \/ e.code = "ECONNABORTED" THEN Wait(3000 * (att + 1))
    ELSE Throw(e)

catchFor(v, att, e) ==
    IF v = "index.js" THEN callGeminiAPI_catch(att, e)
    ELSE callGeminiAPI_catch_part000(att, e)

\* ------------------------------------------------------------- endpoints
\* The endpoints of each variant: part_000 has no streaming route.
Modes(v) == IF v = "index.js" THEN {"batch", "stream"} ELSE {"batch"}

\* Requested lengths the sessions are run with: the two-chunk plan, and the
\* six-chunk plan for the runs that follow a story over several parts.
TargetLengths == {10000}
LongLengths == {10000, 30000}

\* ------------------------------------------------------------- context
\* A text of the context extractor is the sequence of its runs: a run [c, n] is
\* the character c repeated n times, and neighbouring runs differ in c. The
\* characters are a letter, the full stop and the space.
Chars == {"x", ".", " "}
RunLengths == {1, 99, 299, 1200}
Runs == [c : Chars, n : RunLengths]
TextInputs ==
    UNION {{t \in [1..k -> Runs] : \A j \in 1..(k - 1) : t[j].c # t[j + 1].c} : k \in 0..MaxRuns}

\* text.length
RECURSIVE textLength(_)
textLength(t) == IF t = <<>> THEN 0 ELSE Head(t).n + textLength(Tail(t))

\* text.slice(k) for 0 <= k: the text without its first k characters
RECURSIVE slice(_, _)
slice(t, k) ==
    IF k <= 0 \/ t = <<>> THEN t
    ELSE IF k >= Head(t).n THEN slice(Tail(t), k - Head(t).n)
    ELSE <<[c |-> Head(t).c, n |-> Head(t).n - k]>> \o Tail(t)

\* text.slice(-k) for 0 < k <= text.length: the last k characters
sliceLast(t, k) == slice(t, textLength(t) - k)

\* context.indexOf('. '): the index of the first full stop that a space follows, or -1
RECURSIVE indexOfPeriodSpace(_)
indexOfPeriodSpace(t) ==
    IF Len(t) < 2 THEN -1
    ELSE IF t[1].c = "." /\ t[2].c = " " THEN t[1].n - 1
    ELSE LET r == indexOfPeriodSpace(Tail(t))
         IN  IF r = -1 THEN -1 ELSE t[1].n + r

\* context.trim(): without the spaces at either end
trim(t) ==
    LET a == IF t # <<>> /\ Head(t).c = " " THEN Tail(t) ELSE t
    IN  IF a # <<>> /\ a[Len(a)].c = " " THEN SubSeq(a, 1, Len(a) - 1) ELSE a

\* contextLength = Math.min(1500, text.length)
contextLengthWhole(text) == textLength(text)
contextLength(text) ==
    IF textLength(text) < contextWindow THEN textLength(text) ELSE contextWindow

\* extractCleanContext cutting at the first '. ' wherever it lies in the window
extractCleanContextAnywhere(text) ==
    IF text = <<>> \/ textLength(text) < minContextText THEN text
    ELSE LET context == sliceLast(text, contextLength(text))
             firstPeriod == indexOfPeriodSpace(context)
         IN  trim(IF firstPeriod > 0
                  THEN slice(context, firstPeriod + 2)
                  ELSE context)

extractCleanContext(text) ==
    IF text = <<>> \/ textLength(text) < minContextText THEN text
    ELSE LET context == sliceLast(text, contextLength(text))
             firstPeriod == indexOfPeriodSpace(context)
         IN  trim(IF firstPeriod > 0 /\ firstPeriod < sentenceSearch
                  THEN slice(context, firstPeriod + 2)
                  ELSE context)

\* a ++ b as one text: the runs of a, then those of b, the two runs at the seam
\* merged when they hold the same character
concat(a, b) ==
    IF a = <<>> THEN b
    ELSE IF b = <<>> THEN a
    ELSE IF a[Len(a)].c = Head(b).c
    THEN SubSeq(a, 1, Len(a) - 1)
            \o <<[c |-> Head(b).c, n |-> a[Len(a)].n + Head(b).n]>> \o Tail(b)
    ELSE a \o b

\* text.split(/[.!?]/): the pieces between the full stops, cur being the piece
\* under way; a run of n full stops leaves n - 1 empty pieces
RECURSIVE splitSentences(_, _)
splitSentences(t, cur) ==
    IF t = <<>> THEN <<cur>>
    ELSE IF Head(t).c = "."
    THEN <<cur>> \o [k \in 1..(Head(t).n - 1) |-> <<>>] \o splitSentences(Tail(t), <<>>)
    ELSE splitSentences(Tail(t), Append(cur, Head(t)))

\* pieces.join('. ')
RECURSIVE joinSentences(_)
joinSentences(pieces) ==
    IF pieces = <<>> THEN <<>>
    ELSE IF Len(pieces) = 1 THEN Head(pieces)
    ELSE concat(concat(Head(pieces), <<[c |-> ".", n |-> 1], [c |-> " ", n |-> 1]>>),
                joinSentences(Tail(pieces)))

\* extractCleanContext of src/unnamed/part_000: the last 8 sentences of more
\* than 20 characters, joined by '. ' and closed by a full stop
extractCleanContext_part000(text) ==
    IF text = <<>> \/ textLength(text) < minContextText THEN text
    ELSE LET kept == SelectSeq(splitSentences(text, <<>>),
                               LAMBDA p : textLength(trim(p)) > minSentence)
             from == IF Len(kept) > lastSentences THEN Len(kept) - lastSentences + 1 ELSE 1
         IN  concat(joinSentences(SubSeq(kept, from, Len(kept))), <<[c |-> ".", n |-> 1]>>)

\* the previous text handed on whole
contextForWhole(v, text) == text
contextFor(v, text) ==
    IF v = "index.js" THEN extractCleanContext(text) ELSE extractCleanContext_part000(text)

\* --------------------------------------------------------- character names
\* The words of the stoplist.
excludeWords ==
    {"The", "A", "An", "This", "That", "These", "Those", "He", "She", "It", "They", "I", "We"}

\* The keys of nameCounts in insertion order: the matches that are not on the
\* stoplist, each once, by first appearance.
RECURSIVE countedNames(_, _)
countedNames(matches, seen) ==
    IF matches = <<>> THEN <<>>
    ELSE IF Head(matches) \in seen \cup excludeWords
    THEN countedNames(Tail(matches), seen)
    ELSE <<Head(matches)>> \o countedNames(Tail(matches), seen \cup {Head(matches)})

\* nameCounts[name]
nameCount(matches, name) == Cardinality({j \in 1..Len(matches) : matches[j] = name})

\* the sort putting names of equal count in the reverse of their earlier order
sortByCountUnstable(matches, names) ==
    LET k == Len(names)
        place(j) == 1 + Cardinality({h \in 1..k :
                            \/ nameCount(matches, names[h]) > nameCount(matches, names[j])
                            \/ /\ nameCount(matches, names[h]) = nameCount(matches, names[j])
                               /\ h > j})
    IN  [q \in 1..k |-> names[CHOOSE j \in 1..k : place(j) = q]]

\* names.sort((a, b) => b[1] - a[1]): by descending count, equal counts in
\* their earlier order
sortByCount(matches, names) ==
    LET k == Len(names)
        place(j) == 1 + Cardinality({h \in 1..k :
                            \/ nameCount(matches, names[h]) > nameCount(matches, names[j])
                            \/ /\ nameCount(matches, names[h]) = nameCount(matches, names[j])
                               /\ h < j})
    IN  [q \in 1..k |-> names[CHOOSE j \in 1..k : place(j) = q]]

\* extractCharacterInfo applied to the matches of namePattern in the text: the
\* names of 'Key Characters: ...', and <<>> for the empty string
extractCharacterInfo(matches) ==
    LET main == sortByCount(matches,
                    SelectSeq(countedNames(matches, {}),
                              LAMBDA n : nameCount(matches, n) >= minMentions))
    IN  SubSeq(main, 1, IF Len(main) < maxCharacters THEN Len(main) ELSE maxCharacters)

\* src/unnamed/part_000 keeps no character tracker
trackerFor(v, matches) == IF v = "index.js" THEN extractCharacterInfo(matches) ELSE <<>>

\* The excerpt and the names of each text the service can generate, computed
\* once: extractCleanContext(chunks[i - 1]) and extractCharacterInfo(chunks[0]).
contextOfText == [v \in {"index.js", "part_000"}, t \in Texts |-> contextFor(v, TextBody(t))]
trackerOfText == [v \in {"index.js", "part_000"}, t \in Texts |-> trackerFor(v, Matches(t))]

\* ---------------------------------------------------------------- stages
\* The story-arc directive of a part: progress = partNum / totalParts against
\* the bands 0.15, 0.35, 0.50, 0.65, 0.80 and 0.95.
getSectionGoal(partNum, totalParts) ==
    IF 100 * partNum <= 15 * totalParts THEN "HOOK & SETUP"
    ELSE IF 100 * partNum <= 35 * totalParts THEN "RISING ACTION"
    ELSE IF 100 * partNum <= 50 * totalParts THEN "COMPLICATIONS & STAKES"
    ELSE IF 100 * partNum <= 65 * totalParts THEN "MIDPOINT CRISIS"
    ELSE IF 100 * partNum <= 80 * totalParts THEN "ESCALATION & DARKNESS"
    ELSE IF 100 * partNum <= 95 * totalParts THEN "CLIMAX & CONFRONTATION"
    ELSE "RESOLUTION & CLOSURE"

\* src/unnamed/part_000: the bands 0.33 and 0.67
getSectionGoal_part000(partNum, totalParts) ==
    IF 100 * partNum <= 33 * totalParts THEN "OPENING"
    ELSE IF 100 * partNum <= 67 * totalParts THEN "ESCALATION"
    ELSE "CLIMAX & RESOLUTION"

goalFor(v, partNum, totalParts) ==
    IF v = "index.js" THEN getSectionGoal(partNum, totalParts)
    ELSE getSectionGoal_part000(partNum, totalParts)

\* The character counts a prompt states as its target. src/index.js writes
\* "5,500" into the text of both builders; src/unnamed/part_000 interpolates
\* config.charsPerChunk.
statedTargetsStale(v, cfg) == {6000}
statedTargets(v, cfg) ==
    IF v = "index.js" THEN {promptTarget} ELSE {cfg.charsPerChunk}

NoPrompt ==
    [kind |-> "none", partNum |-> 0, total |-> 0, closing |-> FALSE, goal |-> "",
     context |-> <<>>, tracker |-> <<>>, targets |-> {}]
\* buildFirstChunkPrompt for part 1, buildContinuationPrompt for the later parts
\* (isLastChunk = partNum === config.chunks adds the ending requirements)
\* buildContinuationPrompt given the context of the first text instead of the previous one
buildPromptFirstContext(v, partNum, cfg, ch, tracker) ==
    IF partNum = 1
    THEN [kind |-> "first", partNum |-> partNum, total |-> cfg.chunks, closing |-> FALSE,
          goal |-> goalFor(v, partNum, cfg.chunks), context |-> <<>>, tracker |-> <<>>,
          targets |-> statedTargets(v, cfg)]
    ELSE [kind |-> "continuation", partNum |-> partNum, total |-> cfg.chunks,
          closing |-> (partNum = cfg.chunks),
          goal |-> goalFor(v, partNum, cfg.chunks),
          context |-> contextOfText[v, ch[1]], tracker |-> tracker,
          targets |-> statedTargets(v, cfg)]
\* the ending requirements appended from the part before the last on
buildPromptEarlyClosing(v, partNum, cfg, ch, tracker) ==
    IF partNum = 1
    THEN [kind |-> "first", partNum |-> partNum, total |-> cfg.chunks, closing |-> FALSE,
          goal |-> goalFor(v, partNum, cfg.chunks), context |-> <<>>, tracker |-> <<>>,
          targets |-> statedTargets(v, cfg)]
    ELSE [kind |-> "continuation", partNum |-> partNum, total |-> cfg.chunks,
          closing |-> (partNum >= cfg.chunks - 1),
          goal |-> goalFor(v, partNum, cfg.chunks),
          context |-> contextOfText[v, ch[partNum - 1]], tracker |-> tracker,
          targets |-> statedTargets(v, cfg)]
buildPrompt(v, partNum, cfg, ch, tracker) ==
    IF partNum = 1
    THEN [kind |-> "first", partNum |-> partNum, total |-> cfg.chunks, closing |-> FALSE,
          goal |-> goalFor(v, partNum, cfg.chunks), context |-> <<>>, tracker |-> <<>>,
          targets |-> statedTargets(v, cfg)]
    ELSE [kind |-> "continuation", partNum |-> partNum, total |-> cfg.chunks,
          closing |-> (partNum = cfg.chunks),
          goal |-> goalFor(v, partNum, cfg.chunks),
          context |-> contextOfText[v, ch[partNum - 1]], tracker |-> tracker,
          targets |-> statedTargets(v, cfg)]

\* Lengths of the generated texts (chunk.length).
TextLen(t) == textLength(TextBody(t))

RECURSIVE SumLen(_)
SumLen(ch) == IF ch = <<>> THEN 0 ELSE TextLen(Head(ch)) + SumLen(Tail(ch))
\* the texts joined with nothing between them
joinedLengthUnseparated(ch) == SumLen(ch)
\* chunks.join('\n\n').length: the texts and a two-character separator between them
joinedLength(ch) == IF ch = <<>> THEN 0 ELSE SumLen(ch) + 2 * (Len(ch) - 1)

\* The achieved flag of the final statistics.
achievedStrict(v, len, target) == 100 * len > 95 * target
achieved(v, len, target) ==
    IF v = "index.js"
    THEN 100 * len >= 95 * target   \* fullStory.length >= targetLength * 0.95
    ELSE len >= target              \* story.length >= targetLength

\* An SSE event; the fields an event type does not carry hold their empty value.
Event(type, chunk, text, err) ==
    [type |-> type, chunk |-> chunk, text |-> text, error |-> err,
     chars |-> TextLen(text), achieved |-> FALSE]
\* the init event, carrying totalChunks
initEvent(cfg) == Event("init", cfg.chunks, "", NoError)
\* the progress event written at the top of each pass of the loop
progressEventOmitted(m, ev, partNum) == ev
progressEvent(m, ev, partNum) ==
    IF m = "stream" THEN Append(ev, Event("progress", partNum, "", NoError)) ELSE ev
\* the chunk event written after chunks.push
chunkEvent(m, ev, partNum, text) ==
    IF m = "stream" THEN Append(ev, Event("chunk", partNum, text, NoError)) ELSE ev
\* the error event of the inner catch, which ends the stream
errorEventOmitted(m, ev, partNum, err) == ev
errorEvent(m, ev, partNum, err) ==
    IF m = "stream" THEN Append(ev, Event("error", partNum, "", err)) ELSE ev
\* the complete event, carrying totalChars and achieved
completeEvent(m, ev, v, ch, target) ==
    IF m = "stream"
    THEN Append(ev, [type |-> "complete", chunk |-> 0, text |-> "", error |-> NoError,
                     chars |-> joinedLength(ch),
                     achieved |-> achieved(v, joinedLength(ch), target)])
    ELSE ev

NoReply ==
    [status |-> 0, success |-> FALSE, error |-> NoError, script |-> <<>>,
     totalChars |-> 0, achieved |-> FALSE]
\* res.status(400).json(...) of the validation
invalidReply == [NoReply EXCEPT !.status = 400]
\* res.status(500).json({error, success: false}) of the endpoint's catch
failureReplySuccess(err) == [NoReply EXCEPT !.status = 500, !.error = err, !.success = TRUE]
failureReply(err) == [NoReply EXCEPT !.status = 500, !.error = err]
\* res.json({success: true, script, stats}) after the loop
successReply(v, ch, target) ==
    [status |-> 200, success |-> TRUE, error |-> NoError, script |-> ch,
     totalChars |-> joinedLength(ch),
     achieved |-> achieved(v, joinedLength(ch), target)]

\* chunks.push(chunk)
pushReplacing(ch, text) == <<text>>
push(ch, text) == Append(ch, text)

\* The getNextApiKey results kept: the last apiKeys.length of them.
Logged(log, entry) ==
    LET all == Append(log, entry)
        n   == Len(apiKeys)
    IN  IF Len(all) <= n THEN all ELSE SubSeq(all, Len(all) - n + 1, Len(all))

\* The locals of a callGeminiAPI that is over (or never began) hold nothing.
CallOver(s) ==
    /\ apiKey' = [apiKey EXCEPT ![s] = 0]
    /\ attempt' = [attempt EXCEPT ![s] = 0]
    /\ sent' = [sent EXCEPT ![s] = 0]
    /\ delays' = [delays EXCEPT ![s] = <<>>]
    /\ responses' = [responses EXCEPT ![s] = <<>>]
    /\ keysUsed' = [keysUsed EXCEPT ![s] = <<>>]

\* One pass of the endpoint's loop from its top to the axios.post of attempt 0,
\* or past the loop to the final response, for session s in mode m with plan
\* cfg, requested length len, loop index idx, texts ch and events ev.
Iterate(s, m, cfg, len, idx, ch, ev) ==
    LET partNum == idx + 1
        acq == getNextApiKey(apiKeys, currentKeyIndex)
        ev1 == progressEvent(m, ev, partNum)
        \* let characterTracker = ''; if (i === 1) characterTracker = extractCharacterInfo(chunks[0])
        fresh == idx = 0
        tracker == IF idx >= cfg.chunks THEN characterTracker[s]
                   ELSE IF idx = 0 THEN <<>>
                   ELSE IF idx = 1 THEN trackerOfText[variant, ch[1]]
                   ELSE characterTracker[s]
        built == buildPrompt(variant, partNum, cfg, ch, tracker)
    IN
    /\ chunks' = [chunks EXCEPT ![s] = ch]
    /\ characterTracker' = [characterTracker EXCEPT ![s] = tracker]
    /\ trackerRuns' = [trackerRuns EXCEPT ![s] =
            IF fresh THEN 0
            ELSE IF idx = 1 /\ idx < cfg.chunks /\ variant = "index.js" THEN @ + 1 ELSE @]
    /\ prompts' = [prompts EXCEPT ![s] =
            IF idx >= cfg.chunks THEN @
            ELSE IF fresh THEN <<built>> ELSE Append(@, built)]
    /\ posts' = [posts EXCEPT ![s] =
            (IF fresh THEN 0 ELSE @) + (IF idx < cfg.chunks /\ acq.ok THEN 1 ELSE 0)]
    /\ result' = [result EXCEPT ![s] = ""]
    /\ IF idx >= cfg.chunks
       THEN \* the loop is over: join the texts and answer
            /\ pc' = [pc EXCEPT ![s] = "done"]
            /\ events' = [events EXCEPT ![s] =
                    completeEvent(m, ev, variant, ch, len)]
            /\ reply' = [reply EXCEPT ![s] =
                    IF m = "batch" THEN successReply(variant, ch, len)
                    ELSE NoReply]
            /\ i' = [i EXCEPT ![s] = idx]
            /\ prompt' = [prompt EXCEPT ![s] = NoPrompt]
            /\ CallOver(s)
            /\ error' = [error EXCEPT ![s] = NoError]
            /\ UNCHANGED <<currentKeyIndex, acquired, handed>>
       ELSE IF acq.ok
       THEN \* the prompt is built, a key is taken and attempt 0 is posted
            /\ pc' = [pc EXCEPT ![s] = "inflight"]
            /\ i' = [i EXCEPT ![s] = idx]
            /\ prompt' = [prompt EXCEPT ![s] = built]
            /\ keysUsed' = [keysUsed EXCEPT ![s] = <<acq.key>>]
            /\ events' = [events EXCEPT ![s] = ev1]
            /\ currentKeyIndex' = acq.next
            /\ acquired' = Logged(acquired,
                    [key |-> acq.key, cursor |-> currentKeyIndex,
                     suspended |-> acq.key \in limited,
                     allSuspended |-> limited = {apiKeys[k] : k \in 1..Len(apiKeys)}])
            /\ handed' = [handed EXCEPT ![acq.key] = @ + 1]
            /\ apiKey' = [apiKey EXCEPT ![s] = acq.key]
            /\ attempt' = [attempt EXCEPT ![s] = 0]
            /\ sent' = [sent EXCEPT ![s] = 1]
            /\ delays' = [delays EXCEPT ![s] = <<>>]
            /\ responses' = [responses EXCEPT ![s] = <<>>]
            /\ error' = [error EXCEPT ![s] = NoError]
            /\ reply' = [reply EXCEPT ![s] = NoReply]
       ELSE \* getNextApiKey threw: the endpoint's catch answers
            /\ pc' = [pc EXCEPT ![s] = "done"]
            /\ i' = [i EXCEPT ![s] = idx]
            /\ prompt' = [prompt EXCEPT ![s] = NoPrompt]
            /\ error' = [error EXCEPT ![s] = NoKeysError]
            /\ events' = [events EXCEPT ![s] = errorEvent(m, ev1, partNum, NoKeysError)]
            /\ reply' = [reply EXCEPT ![s] =
                    IF m = "batch" THEN failureReply(NoKeysError) ELSE NoReply]
            /\ CallOver(s)
            /\ UNCHANGED <<currentKeyIndex, acquired, handed>>

\* A generation request arrives on a free connection: validation, plan, init
\* event, first pass of the loop.
Request(s) ==
    /\ pc[s] \in {"idle", "done"}
    /\ ~closed[s]
    /\ requests < MaxRequests
    /\ requests' = requests + 1
    /\ \E m \in Modes(variant), len \in lengths, ok \in BOOLEAN :
        /\ mode' = [mode EXCEPT ![s] = m]
        /\ valid' = [valid EXCEPT ![s] = ok]
        /\ IF ~ok
           THEN /\ pc' = [pc EXCEPT ![s] = "done"]
                /\ reply' = [reply EXCEPT ![s] = invalidReply]
                /\ events' = [events EXCEPT ![s] = <<>>]
                /\ targetLength' = [targetLength EXCEPT ![s] = 0]
                /\ config' = [config EXCEPT ![s] = NoPlan]
                /\ i' = [i EXCEPT ![s] = 0]
                /\ chunks' = [chunks EXCEPT ![s] = <<>>]
                /\ result' = [result EXCEPT ![s] = ""]
                /\ error' = [error EXCEPT ![s] = NoError]
                /\ characterTracker' = [characterTracker EXCEPT ![s] = <<>>]
                /\ trackerRuns' = [trackerRuns EXCEPT ![s] = 0]
                /\ prompts' = [prompts EXCEPT ![s] = <<>>]
                /\ posts' = [posts EXCEPT ![s] = 0]
                /\ UNCHANGED <<prompt, apiKey, attempt, sent, delays, responses, keysUsed,
                               currentKeyIndex, acquired, handed>>
           ELSE /\ targetLength' = [targetLength EXCEPT ![s] = len]
                /\ config' = [config EXCEPT ![s] = planFor(variant, len)]
                /\ Iterate(s, m, planFor(variant, len), len, 0, <<>>,
                        IF m = "stream" THEN <<initEvent(planFor(variant, len))>> ELSE <<>>)
    /\ UNCHANGED <<runVars, apiKeys, limited, health, funVars>>

\* The axios.post of session s settles with r: callGeminiAPI returns, throws or backs off.
Respond(s) ==
    /\ pc[s] = "inflight"
    /\ \E r \in service :
        LET e == attemptError(r)
            out == catchFor(variant, attempt[s], e)
        IN
        /\ responses' = [responses EXCEPT ![s] = Append(@, r)]
        /\ limited' = IF r.status = 429 THEN limited \cup {apiKey[s]} ELSE limited
        /\ IF e = NoError
           THEN /\ pc' = [pc EXCEPT ![s] = "returned"]
                /\ result' = [result EXCEPT ![s] = r.text]
                /\ UNCHANGED <<error, delays>>
           ELSE IF out.op = "throw"
           THEN /\ pc' = [pc EXCEPT ![s] = "threw"]
                /\ error' = [error EXCEPT ![s] = out.error]
                /\ UNCHANGED <<result, delays>>
           ELSE /\ pc' = [pc EXCEPT ![s] = "waiting"]
                /\ delays' = [delays EXCEPT ![s] = Append(@, out.ms)]
                /\ UNCHANGED <<result, error>>
    /\ UNCHANGED <<runVars, apiKeys, currentKeyIndex, acquired, handed, health, requests,
                   mode, valid, targetLength, config, i, chunks, prompt,
                   characterTracker, trackerRuns, prompts, posts,
                   apiKey, attempt, sent, keysUsed, outVars, funVars>>

\* The backoff timer of session s expires: attempt++ and the loop test
\* attempt < maxRetries; the next attempt is posted with the same key, or the
\* loop is left and callGeminiAPI returns undefined.
Retry(s) ==
    /\ pc[s] = "waiting"
    /\ attempt' = [attempt EXCEPT ![s] = @ + 1]
    /\ IF attempt[s] + 1 < maxRetries
       THEN /\ pc' = [pc EXCEPT ![s] = "inflight"]
            /\ sent' = [sent EXCEPT ![s] = @ + 1]
            /\ posts' = [posts EXCEPT ![s] = @ + 1]
            /\ keysUsed' = [keysUsed EXCEPT ![s] = Append(@, apiKey[s])]
            /\ UNCHANGED result
       ELSE /\ pc' = [pc EXCEPT ![s] = "returned"]
            /\ result' = [result EXCEPT ![s] = ""]
            /\ UNCHANGED <<sent, posts, keysUsed>>
    /\ UNCHANGED <<poolVars, mode, valid, targetLength, config, i, chunks, prompt,
                   characterTracker, trackerRuns, prompts,
                   apiKey, delays, responses, error, outVars, funVars>>

\* callGeminiAPI returned to the endpoint: the text is pushed (and streamed) and
\* the loop goes on.
Continue(s) ==
    /\ pc[s] = "returned"
    /\ Iterate(s, mode[s], config[s], targetLength[s], i[s] + 1, push(chunks[s], result[s]),
            chunkEvent(mode[s], events[s], i[s] + 1, result[s]))
    /\ UNCHANGED <<runVars, apiKeys, limited, health, requests, mode, valid,
                   targetLength, config, funVars>>

\* callGeminiAPI threw to the endpoint: the error event or the failure response.
Fail(s) ==
    /\ pc[s] = "threw"
    /\ pc' = [pc EXCEPT ![s] = "done"]
    /\ events' = [events EXCEPT ![s] = errorEvent(mode[s], @, i[s] + 1, error[s])]
    /\ reply' = [reply EXCEPT ![s] = IF mode[s] = "batch" THEN failureReply(error[s]) ELSE @]
    /\ prompt' = [prompt EXCEPT ![s] = NoPrompt]
    /\ CallOver(s)
    /\ UNCHANGED <<poolVars, mode, valid, targetLength, config, i, chunks,
                   characterTracker, trackerRuns, prompts, posts,
                   result, error, funVars>>

\* The cooldown of a rate-limited credential elapses.
CooldownElapses ==
    /\ \E k \in limited : limited' = limited \ {k}
    /\ UNCHANGED <<runVars, apiKeys, currentKeyIndex, acquired, handed, health, requests,
                   sessVars, callVars, outVars, funVars>>

\* GET /api/health reports apiKeys.length.
HealthCheck ==
    /\ health = -1
    /\ health' = Len(apiKeys)
    /\ UNCHANGED <<runVars, apiKeys, currentKeyIndex, limited, acquired, handed, requests,
                   sessVars, callVars, outVars, funVars>>

\* ------------------------------------------------------- specifications
\* The server of file v has started; conns connections will be used, the
\* clients ask for the lengths lens and the service answers from svc.
ServerStart(v, conns, lens, svc) ==
    /\ pc = [s \in conns |-> "idle"]
    /\ variant = v
    /\ service = svc
    /\ lengths = lens
    /\ requests = 0
    /\ apiKeys \in LoadedPools
    /\ currentKeyIndex = 0
    /\ limited = {}
    /\ acquired = <<>>
    /\ handed = [k \in 1..Len(apiKeys) |-> 0]
    /\ health = -1
    /\ mode = [s \in Sessions |-> "none"]
    /\ valid = [s \in Sessions |-> FALSE]
    /\ targetLength = [s \in Sessions |-> 0]
    /\ config = [s \in Sessions |-> NoPlan]
    /\ i = [s \in Sessions |-> 0]
    /\ chunks = [s \in Sessions |-> <<>>]
    /\ prompt = [s \in Sessions |-> NoPrompt]
    /\ characterTracker = [s \in Sessions |-> <<>>]
    /\ trackerRuns = [s \in Sessions |-> 0]
    /\ prompts = [s \in Sessions |-> <<>>]
    /\ posts = [s \in Sessions |-> 0]
    /\ keysUsed = [s \in Sessions |-> <<>>]
    /\ closed = [s \in Sessions |-> FALSE]
    /\ apiKey = [s \in Sessions |-> 0]
    /\ attempt = [s \in Sessions |-> 0]
    /\ sent = [s \in Sessions |-> 0]
    /\ delays = [s \in Sessions |-> <<>>]
    /\ responses = [s \in Sessions |-> <<>>]
    /\ result = [s \in Sessions |-> ""]
    /\ error = [s \in Sessions |-> NoError]
    /\ events = [s \in Sessions |-> <<>>]
    /\ reply = [s \in Sessions |-> NoReply]

ServerInit(v) == ServerStart(v, 1..MaxSessions, TargetLengths, Responses)

PlanIdle ==
    /\ planArg = 0
    /\ planOut = NoPlan
    /\ planDone = FALSE
    /\ planStated = <<>>

StageIdle ==
    /\ stagePart = 0
    /\ stageTotal = 0
    /\ stageOut = ""
    /\ stageDone = FALSE

ContextIdle ==
    /\ ctxIn = <<>>
    /\ ctxOut = <<>>
    /\ ctxDone = FALSE

NamesIdle ==
    /\ namesIn = <<>>
    /\ namesOut = <<>>
    /\ namesDone = FALSE

Init == ServerInit("index.js") /\ PlanIdle /\ StageIdle /\ ContextIdle /\ NamesIdle

Next ==
    \/ \E s \in Sessions : Request(s)
    \/ \E s \in Sessions : Respond(s)
    \/ \E s \in Sessions : Retry(s)
    \/ \E s \in Sessions : Continue(s)
    \/ \E s \in Sessions : Fail(s)
    \/ CooldownElapses
    \/ HealthCheck

\* src/index.js serving requests
Spec == Init /\ [][Next]_vars

\* With a service that is never overloaded no attempt fails transiently: no
\* backoff timer is set and no cooldown begins.
NextSteady ==
    \/ \E s \in Sessions : Request(s)
    \/ \E s \in Sessions : Respond(s)
    \/ \E s \in Sessions : Continue(s)
    \/ \E s \in Sessions : Fail(s)
    \/ HealthCheck

\* Node's event loop runs every callback that is ready: a post that settles,
\* a backoff timer that expires and the continuation of a callGeminiAPI that
\* returned or threw all get their turn.
Scheduling ==
    \A s \in 1..MaxSessions :
        /\ WF_vars(Respond(s))
        /\ WF_vars(Retry(s))
        /\ WF_vars(Continue(s))
        /\ WF_vars(Fail(s))

\* src/index.js serving requests on a service whose every attempt ends
SpecFair == Init /\ [][Next]_vars /\ Scheduling

\* src/index.js serving requests for stories of two and of six parts
InitLong ==
    /\ ServerStart("index.js", 1..MaxSessions, LongLengths, SteadyResponses)
    /\ PlanIdle /\ StageIdle /\ ContextIdle /\ NamesIdle
SpecLong == InitLong /\ [][NextSteady]_vars

\* The client of a stream closes the connection while the handler awaits
\* callGeminiAPI. The handler registers no 'close' listener and tests nothing
\* of req or res in its loop, and res.write on a closed connection does not
\* throw: nothing else changes.
ClientCloses(s) ==
    /\ mode[s] = "stream"
    /\ pc[s] \in {"inflight", "waiting", "returned", "threw"}
    /\ ~closed[s]
    /\ closed' = [closed EXCEPT ![s] = TRUE]
    /\ UNCHANGED <<variant, service, lengths, apiKeys, currentKeyIndex, limited, acquired,
                   handed, health, requests, sessVars, callVars, outVars, funVars>>

\* src/index.js serving clients that may close their stream
NextCancel ==
    \/ NextSteady
    \/ \E s \in Sessions : ClientCloses(s)
InitCancel ==
    /\ ServerStart("index.js", 1..MaxSessions, TargetLengths, SteadyResponses)
    /\ PlanIdle /\ StageIdle /\ ContextIdle /\ NamesIdle
SpecCancel == InitCancel /\ [][NextCancel]_vars

\* src/index.js serving concurrent connections
InitConcurrent ==
    /\ ServerStart("index.js", 1..MaxConcurrent, TargetLengths, SteadyResponses)
    /\ PlanIdle /\ StageIdle /\ ContextIdle /\ NamesIdle
SpecConcurrent == InitConcurrent /\ [][NextSteady]_vars

\* src/unnamed/part_000 serving requests
InitPart000 == ServerInit("part_000") /\ PlanIdle /\ StageIdle /\ ContextIdle /\ NamesIdle
SpecPart000 == InitPart000 /\ [][Next]_vars

\* The planner of src/index.js applied to one requested length.
BandEdges == {0, 10000, 30000, 60000, 100000, 1000000, 2000000000}
LengthInputs == {b + d : b \in BandEdges, d \in (0 - MaxDelta)..MaxDelta}

ApplyPlan ==
    /\ ~planDone
    /\ planOut' = planFor(variant, planArg)
    /\ planStated' =
           LET cfg == planFor(variant, planArg)
               ch == [k \in 1..cfg.chunks |-> "A"]
           IN  [k \in 1..cfg.chunks |-> buildPrompt(variant, k, cfg, ch, <<>>).targets]
    /\ planDone' = TRUE
    /\ UNCHANGED <<planArg, stageVars, ctxVars, nameVars, poolVars, sessVars, callVars, outVars>>

InitPlan ==
    /\ ServerInit("index.js")
    /\ planArg \in LengthInputs
    /\ planOut = NoPlan
    /\ planDone = FALSE
    /\ planStated = <<>>
    /\ StageIdle
    /\ ContextIdle
    /\ NamesIdle

NextPlan == ApplyPlan

SpecPlan == InitPlan /\ [][NextPlan]_vars

\* getSectionGoal of src/index.js applied to one part of one plan.
ApplyStage ==
    /\ ~stageDone
    /\ stageOut' = goalFor(variant, stagePart, stageTotal)
    /\ stageDone' = TRUE
    /\ UNCHANGED <<stagePart, stageTotal, planVars, ctxVars, nameVars,
                   poolVars, sessVars, callVars,
                   outVars>>

InitStage ==
    /\ ServerInit("index.js")
    /\ PlanIdle
    /\ ContextIdle
    /\ NamesIdle
    /\ stageTotal \in 1..MaxParts
    /\ stagePart \in 1..stageTotal
    /\ stageOut = ""
    /\ stageDone = FALSE

NextStage == ApplyStage

SpecStage == InitStage /\ [][NextStage]_vars

\* extractCleanContext of src/index.js applied to one text.
ApplyContext ==
    /\ ~ctxDone
    /\ ctxOut' = extractCleanContext(ctxIn)
    /\ ctxDone' = TRUE
    /\ UNCHANGED <<ctxIn, planVars, stageVars, nameVars, poolVars, sessVars, callVars, outVars>>

InitContext ==
    /\ ServerInit("index.js")
    /\ PlanIdle
    /\ StageIdle
    /\ ctxIn \in TextInputs
    /\ ctxOut = <<>>
    /\ ctxDone = FALSE
    /\ NamesIdle

NextContext == ApplyContext

SpecContext == InitContext /\ [][NextContext]_vars

\* The words namePattern can match in the texts of the names run: six names
\* and a word of the stoplist.
NameWords == <<"Anna", "Ben", "Cara", "Dara", "Ed", "Fay", "The">>
NameOrders == {NameWords, <<"The", "Fay", "Cara", "Anna", "Ed", "Ben", "Dara">>}
\* The words of order that occur at least r times, in this order or backwards.
mentioned(order, cnt, r, back) ==
    LET kept == SelectSeq(order, LAMBDA w : cnt[w] >= r)
    IN  IF back THEN [j \in 1..Len(kept) |-> kept[Len(kept) + 1 - j]] ELSE kept
\* The matches of a text that mentions each word cnt[word] times: the words
\* come in rounds, every second round backwards when back holds.
RECURSIVE matchRounds(_, _, _, _)
matchRounds(order, cnt, r, back) ==
    IF r > MaxMentions THEN <<>>
    ELSE mentioned(order, cnt, r, back /\ r % 2 = 0) \o matchRounds(order, cnt, r + 1, back)
MatchInputs ==
    {matchRounds(o, c, 1, b) :
        o \in NameOrders, c \in [{NameWords[j] : j \in 1..Len(NameWords)} -> 0..MaxMentions],
        b \in BOOLEAN}

\* extractCharacterInfo of src/index.js applied to the matches of one text.
ApplyNames ==
    /\ ~namesDone
    /\ namesOut' = extractCharacterInfo(namesIn)
    /\ namesDone' = TRUE
    /\ UNCHANGED <<namesIn, planVars, stageVars, ctxVars, poolVars, sessVars, callVars,
                   outVars>>

InitNames ==
    /\ ServerInit("index.js")
    /\ PlanIdle
    /\ StageIdle
    /\ ContextIdle
    /\ namesIn \in MatchInputs
    /\ namesOut = <<>>
    /\ namesDone = FALSE

NextNames == ApplyNames

SpecNames == InitNames /\ [][NextNames]_vars

\* ------------------------------------------------------------ vocabulary
\* A transient failure: HTTP 429, a 5xx status, or the request timeout.
Transient(r) == r.status = 429 \/ r.status >= 500 \/ r.code = "ECONNABORTED"
\* A 2xx response that carries generated text.
Success(r) == r.status = 200 /\ r.text # ""
\* A 4xx status other than 429.
ClientError(r) == r.status >= 400 /\ r.status < 500 /\ r.status # 429
Last(seq) == seq[Len(seq)]
AllTransient(seq, n) == \A j \in 1..n : Transient(seq[j])
\* The session has been told of a failure.
Surfaced(s) ==
    \/ reply[s].status = 500
    \/ \E j \in 1..Len(events[s]) : events[s][j].type = "error"

\* ------------------------------------------------------------ properties

\* C1: for every requested length, the plan of getChunkConfig (src/index.js) has
\* charsPerChunk at most the 5500-character ceiling and at least one chunk.
C1_PlanWithinCeiling ==
    planDone => /\ planOut.charsPerChunk <= CHARS_PER_CHUNK
                /\ planOut.chunks >= 1
\* a length above 100000 has been planned, through the fallback band
C1_Witness == planDone /\ planArg > 100000 /\ planOut.chunks = 25

\* C2: when the attempts before the k-th all failed transiently and the k-th
\* succeeds (k <= maxRetries), callGeminiAPI returns the text of the k-th
\* attempt after exactly k-1 backoff delays, and no failure reaches the session.
C2_SuccessAfterTransient ==
    \A s \in Sessions :
        LET rs == responses[s] IN
        (/\ Len(rs) >= 1
         /\ Len(rs) <= maxRetries
         /\ AllTransient(rs, Len(rs) - 1)
         /\ Success(Last(rs)))
        => /\ pc[s] = "returned"
           /\ result[s] = Last(rs).text
           /\ Len(delays[s]) = Len(rs) - 1
           /\ sent[s] = Len(rs)
           /\ error[s] = NoError
           /\ ~Surfaced(s)
\* [429, 429, success] with maxRetries = 3: the text is returned after two delays
C2_Witness ==
    \E s \in Sessions :
        /\ responses[s] = <<Http(429), Http(429), Ok("A")>>
        /\ pc[s] = "returned"
        /\ result[s] = "A"
        /\ Len(delays[s]) = 2

\* C3: when all maxRetries attempts fail transiently, callGeminiAPI has made
\* exactly maxRetries attempts and throws the failed-after-N-attempts error
\* wrapping the last error; it never makes more than maxRetries attempts.
C3_RetriesExhausted ==
    \A s \in Sessions :
        LET rs == responses[s] IN
        /\ sent[s] <= maxRetries
        /\ Len(rs) <= maxRetries
        /\ (Len(rs) = maxRetries /\ AllTransient(rs, maxRetries))
            => /\ pc[s] = "threw"
               /\ sent[s] = maxRetries
               /\ error[s] = FailedAfterError(AxiosError(Last(rs)))
\* [500, 500, 500] with maxRetries = 3
C3_Witness ==
    \E s \in Sessions :
        /\ responses[s] = <<Http(500), Http(500), Http(500)>>
        /\ pc[s] = "threw"
        /\ error[s].kind = "FailedAfter"
        /\ sent[s] = 3

\* C4: a 4xx status other than 429 ends callGeminiAPI at once: it has thrown,
\* no backoff delay was taken for that failure and no further attempt was posted.
C4_ClientErrorFailsAtOnce ==
    \A s \in Sessions :
        LET rs == responses[s] IN
        (Len(rs) >= 1 /\ ClientError(Last(rs)))
        => /\ pc[s] = "threw"
           /\ Len(delays[s]) = Len(rs) - 1
           /\ sent[s] = Len(rs)
\* a single 400 response: one attempt, no delay
C4_Witness ==
    \E s \in Sessions :
        /\ responses[s] = <<Http(400)>>
        /\ pc[s] = "threw"
        /\ sent[s] = 1
        /\ delays[s] = <<>>

\* C5: every transient failure (429, 5xx, timeout) of an attempt that is not
\* the last allowed one is followed by a backoff delay and then another attempt,
\* in both variants of callGeminiAPI.
C5_TransientIsRetried ==
    \A s \in Sessions :
        LET rs == responses[s] IN
        (Len(rs) >= 1 /\ Len(rs) < maxRetries /\ Transient(Last(rs)))
        => \/ pc[s] = "waiting" /\ Len(delays[s]) = Len(rs)
           \/ pc[s] = "inflight" /\ Len(delays[s]) = Len(rs) /\ sent[s] = Len(rs) + 1

\* C6: a 2xx response without generated text makes callGeminiAPI throw the
\* invalid-response error with no retry, whichever attempt it occurs on.
C6_InvalidResponseNotRetried ==
    \A s \in Sessions :
        LET rs == responses[s] IN
        (Len(rs) >= 1 /\ Last(rs) = Ok(""))
        => /\ pc[s] = "threw"
           /\ error[s] = InvalidFormatError
           /\ Len(delays[s]) = Len(rs) - 1
           /\ sent[s] = Len(rs)

\* C7: any N consecutive getNextApiKey calls on a pool of N >= 1 credentials
\* return every credential exactly once, in rotation order.
C7_RoundRobin ==
    LET n == Len(apiKeys) IN
    (n >= 1 /\ Len(acquired) = n)
    => /\ {acquired[j].key : j \in 1..n} = {apiKeys[k] : k \in 1..n}
       /\ \A j \in 1..(n - 1) : acquired[j + 1].key = apiKeys[(acquired[j].key % n) + 1]
\* two consecutive acquires on two keys that began at cursor 1
C7_Witness ==
    /\ Len(apiKeys) = 2
    /\ Len(acquired) = 2
    /\ acquired[1].key = 2
    /\ acquired[2].key = 1

\* C8: a credential that received a 429 is not returned by getNextApiKey until
\* its cooldown has elapsed.
C8_SuspendedNotReturned ==
    \A j \in 1..Len(acquired) : ~acquired[j].suspended

\* C9: when every credential of a non-empty pool is suspended, getNextApiKey
\* fails instead of returning a suspended credential.
C9_AllSuspendedFails ==
    \A j \in 1..Len(acquired) : acquired[j].allSuspended => acquired[j].key = 0

\* C10: with no credential configured the service still starts and reports
\* apiKeys 0, no request is ever posted to the external service, and every
\* generation request that passed validation ends with the no-credentials
\* error: success:false in batch mode, a terminal error event when streaming.
C10_NoKeysDeferred ==
    Len(apiKeys) = 0 =>
        /\ health \in {-1, 0}
        /\ \A s \in Sessions :
            /\ pc[s] \in {"idle", "done"}
            /\ sent[s] = 0
            /\ (pc[s] = "done" /\ valid[s]) =>
                /\ mode[s] = "batch" =>
                    /\ reply[s].status = 500
                    /\ ~reply[s].success
                    /\ reply[s].error = NoKeysError
                    /\ reply[s].script = <<>>
                /\ mode[s] = "stream" =>
                    /\ Len(events[s]) >= 1
                    /\ Last(events[s]).type = "error"
                    /\ Last(events[s]).error = NoKeysError
                    /\ \A j \in 1..(Len(events[s]) - 1) :
                            events[s][j].type \in {"init", "progress"}
\* no key loaded, the count 0 reported, and a streaming request ended in the error event
C10_Witness ==
    /\ Len(apiKeys) = 0
    /\ health = 0
    /\ \E s \in Sessions :
        /\ pc[s] = "done"
        /\ valid[s]
        /\ mode[s] = "stream"
        /\ Last(events[s]).type = "error"
        /\ Last(events[s]).error = NoKeysError

\* The chunk events for parts 1..n are all among the first k events of ev.
ChunkEventsFor(ev, k, n) ==
    \A c \in 1..n : \E h \in 1..k : ev[h].type = "chunk" /\ ev[h].chunk = c
\* A callGeminiAPI of session s is in progress or has just settled.
InCall(s) == pc[s] \in {"inflight", "waiting", "returned", "threw"}

\* C11: the events of a streaming session are strictly ordered: init is the
\* first event, written once and before any post to the external service; the
\* progress events carry the part numbers 1, 2, ... in order and each is
\* followed at once by the chunk event of the same part, or by the error
\* event; complete is the last event and comes after the chunk events of all
\* planned parts.
C11_EventsOrdered ==
    \A s \in Sessions :
        LET ev == events[s]
            n  == Len(ev)
        IN
        mode[s] = "stream" =>
            /\ (sent[s] > 0 \/ n > 0) => ev[1].type = "init"
            /\ \A j \in 2..n :
                /\ ev[j].type # "init"
                /\ ev[j].type = "progress" =>
                    /\ j % 2 = 0
                    /\ ev[j].chunk = j \div 2
                    /\ j < n => /\ ev[j + 1].type \in {"chunk", "error"}
                                /\ ev[j + 1].chunk = ev[j].chunk
                    /\ j = n => InCall(s)
                /\ ev[j].type \in {"chunk", "error"} =>
                    /\ ev[j - 1].type = "progress"
                    /\ ev[j - 1].chunk = ev[j].chunk
                /\ ev[j].type = "complete" =>
                    /\ j = n
                    /\ ev[j - 1].type = "chunk"
                    /\ ChunkEventsFor(ev, j - 1, config[s].chunks)
\* a two-part stream ran to its end: init, progress 1, chunk 1, progress 2, chunk 2, complete
C11_Witness ==
    \E s \in Sessions :
        /\ mode[s] = "stream"
        /\ config[s].chunks = 2
        /\ [j \in 1..Len(events[s]) |-> events[s][j].type]
                = <<"init", "progress", "chunk", "progress", "chunk", "complete">>

Terminal(e) == e.type \in {"error", "complete"}
\* The texts of the chunk events of ev, oldest first.
RECURSIVE StreamedTexts(_)
StreamedTexts(ev) ==
    IF ev = <<>> THEN <<>>
    ELSE IF Head(ev).type = "chunk" THEN <<Head(ev).text>> \o StreamedTexts(Tail(ev))
    ELSE StreamedTexts(Tail(ev))

\* C12: a streaming session that began writing events and is over has exactly
\* one terminal event (error or complete, never both) and it is its last
\* event; once the terminal event is written the session is over and posts
\* nothing more; and the chunk events written before an error are still in the
\* stream, one for every text generated.
C12_OneTerminalEvent ==
    \A s \in Sessions :
        LET ev == events[s]
            n  == Len(ev)
        IN
        mode[s] = "stream" =>
            /\ \A j \in 1..n : Terminal(ev[j]) => j = n
            /\ (n > 0 /\ Terminal(ev[n])) => pc[s] = "done" /\ sent[s] = 0
            /\ (pc[s] = "done" /\ n > 0) => Terminal(ev[n])
            /\ StreamedTexts(ev) = chunks[s]
\* part 1 was streamed, part 2 failed: the stream ends in the error event and
\* still holds the chunk event of part 1
C12_Witness ==
    \E s \in Sessions :
        /\ mode[s] = "stream"
        /\ pc[s] = "done"
        /\ [j \in 1..Len(events[s]) |-> events[s][j].type]
                = <<"init", "progress", "chunk", "progress", "error">>
        /\ events[s][3].text = chunks[s][1]

\* C13: in batch mode a failure of callGeminiAPI (or of getNextApiKey) at part
\* i ends the session: the one response sent is the failure object, success
\* false with the error and no script, also when earlier parts had succeeded;
\* nothing is posted for the later parts, and a response is sent only by a
\* session that is over.
C13_BatchFailureHalts ==
    \A s \in Sessions :
        mode[s] = "batch" =>
            /\ reply[s] # NoReply => pc[s] = "done" /\ sent[s] = 0
            /\ pc[s] = "threw" => reply[s] = NoReply
            /\ (pc[s] = "done" /\ valid[s]) => reply[s].status \in {200, 500}
            /\ reply[s].status = 500 =>
                /\ ~reply[s].success
                /\ reply[s].error # NoError
                /\ reply[s].script = <<>>
                /\ i[s] < config[s].chunks
                /\ Len(chunks[s]) = i[s]
            /\ events[s] = <<>>
\* part 1 succeeded, part 2 failed after its retries: the failure object without script
C13_Witness ==
    \E s \in Sessions :
        /\ mode[s] = "batch"
        /\ pc[s] = "done"
        /\ Len(chunks[s]) = 1
        /\ config[s].chunks = 2
        /\ reply[s].status = 500
        /\ reply[s].error.kind = "FailedAfter"
        /\ reply[s].script = <<>>

\* The session ended with the story: the success response or the complete event.
Completed(s) ==
    \/ reply[s].status = 200
    \/ \E j \in 1..Len(events[s]) : events[s][j].type = "complete"

\* C14: the parts of a session are generated strictly one after the other:
\* while the call for part k is in progress (k = 1..count) exactly k-1 texts
\* have been accumulated and the prompt is the one of part k; the session
\* completes only with exactly count texts; and a failure is surfaced only out
\* of the generation of a part, with the texts of the earlier parts in place.
C14_StrictlySequential ==
    \A s \in Sessions :
        /\ InCall(s) =>
            /\ i[s] + 1 \in 1..config[s].chunks
            /\ prompt[s].partNum = i[s] + 1
            /\ Len(chunks[s]) = i[s]
            /\ ~Completed(s)
            /\ ~Surfaced(s)
        /\ Completed(s) =>
            /\ pc[s] = "done"
            /\ i[s] = config[s].chunks
            /\ Len(chunks[s]) = config[s].chunks
            /\ ~Surfaced(s)
        /\ Surfaced(s) =>
            /\ pc[s] = "done"
            /\ i[s] + 1 \in 1..config[s].chunks
            /\ Len(chunks[s]) = i[s]
        /\ pc[s] = "idle" => chunks[s] = <<>>
\* the call for part 2 of 2 is in flight with exactly the text of part 1 accumulated
C14_Witness ==
    \E s \in Sessions :
        /\ pc[s] = "inflight"
        /\ prompt[s].partNum = 2
        /\ config[s].chunks = 2
        /\ Len(chunks[s]) = 1

\* C16: when a session completes, achieved is true exactly when the joined
\* story is at least 95% of the requested targetLength long, and a story that
\* falls short is still a success (success true, or the complete event) with
\* achieved false, never an error.
C16_AchievedAtNinetyFivePercent ==
    \A s \in Sessions :
        LET story == joinedLength(chunks[s])
            enough == 100 * story >= 95 * targetLength[s]
        IN
        (pc[s] = "done" /\ valid[s] /\ Len(chunks[s]) = config[s].chunks) =>
            /\ ~Surfaced(s)
            /\ mode[s] = "batch" =>
                /\ reply[s].status = 200
                /\ reply[s].success
                /\ reply[s].totalChars = story
                /\ reply[s].achieved = enough
            /\ mode[s] = "stream" =>
                /\ Last(events[s]).type = "complete"
                /\ Last(events[s]).chars = story
                /\ Last(events[s]).achieved = enough
\* 10000 characters requested, two texts of 4000 generated: 8002 joined
\* characters, below 9500, answered with success true and achieved false
C16_Witness ==
    \E s \in Sessions :
        /\ mode[s] = "batch"
        /\ targetLength[s] = 10000
        /\ chunks[s] = <<"A", "A">>
        /\ reply[s].success
        /\ reply[s].totalChars = 8002
        /\ ~reply[s].achieved

\* C15: getSectionGoal(partNum, totalParts) returns the RESOLUTION & CLOSURE
\* directive if and only if partNum = totalParts, for every plan of 1 to
\* MaxParts parts and every part of it.
C15_ClosureOnlyForLastPart ==
    stageDone => (stageOut = "RESOLUTION & CLOSURE" <=> stagePart = stageTotal)

\* C17: extractCleanContext returns every text shorter than 1500 characters
\* unchanged, the empty text included, and applying it again to the result
\* changes nothing.
C17_ShortTextUnchanged ==
    (ctxDone /\ textLength(ctxIn) < contextWindow) =>
        /\ ctxOut = ctxIn
        /\ extractCleanContext(ctxOut) = ctxOut

\* The last 1500 characters of a text (the whole text when it is shorter).
trailingWindow(t) ==
    IF textLength(t) <= contextWindow THEN t ELSE slice(t, textLength(t) - contextWindow)
\* The text out occurs in the text w as a contiguous piece. Both are sequences
\* of runs whose neighbours differ, so out occurs in w exactly when its runs
\* lie over consecutive runs of w with the same characters, the inner ones of
\* the same lengths and the two outer ones no longer than those of w.
IsPieceOf(out, w) ==
    \/ out = <<>>
    \/ \E j \in 1..(Len(w) - Len(out) + 1) :
        /\ \A h \in 1..Len(out) : out[h].c = w[j + h - 1].c
        /\ \A h \in 2..(Len(out) - 1) : out[h].n = w[j + h - 1].n
        /\ out[1].n <= w[j].n
        /\ out[Len(out)].n <= w[j + Len(out) - 1].n

\* C18: for every text, the excerpt extractCleanContext returns is at most
\* 1500 characters long and is a contiguous piece of the last 1500 characters
\* of the text.
C18_ExcerptWithinWindow ==
    ctxDone =>
        /\ textLength(ctxOut) <= contextWindow
        /\ IsPieceOf(ctxOut, trailingWindow(ctxIn))
\* 2402 characters with a sentence end 298 characters into the window: the
\* excerpt is the 1200 characters after it
C18_Witness ==
    /\ ctxDone
    /\ ctxIn = <<[c |-> "x", n |-> 1200], [c |-> ".", n |-> 1], [c |-> " ", n |-> 1],
                 [c |-> "x", n |-> 1200]>>
    /\ ctxOut = <<[c |-> "x", n |-> 1200]>>

\* C19: for every positive requested length the planned capacity, chunks times
\* charsPerChunk, is within a factor of 2 of the requested length: at least
\* half of it and at most twice it.
C19_CapacityWithinFactorTwo ==
    LET capacity == planOut.chunks * planOut.charsPerChunk IN
    (planDone /\ planArg > 0) =>
        /\ planArg - capacity <= capacity
        /\ capacity - planArg <= planArg

\* C20: getChunkConfig is total: every positive requested length gets a plan,
\* one of the five the function names, with at least one chunk, and every
\* length above 100000, however large, gets the plan of the fallback band.
C20_PlanForEveryLength ==
    (planDone /\ planArg > 0) =>
        /\ planOut # NoPlan
        /\ planOut.chunks \in {2, 6, 12, 20, 25}
        /\ planOut.charsPerChunk = CHARS_PER_CHUNK
        /\ planArg > 100000 => planOut = [chunks |-> 25, charsPerChunk |-> CHARS_PER_CHUNK]
\* a length of two thousand million characters has been planned: 25 chunks of 5500
C20_Witness ==
    /\ planDone
    /\ planArg >= 2000000000
    /\ planOut = [chunks |-> 25, charsPerChunk |-> 5500]

\* C21: the plan agrees with the tables the service publishes: 10000, 30000,
\* 60000 and 100000 characters are planned as 2, 6, 12 and 20 chunks, and
\* every length above 100000 as at least 20 chunks.
C21_PlanMatchesDocumentation ==
    planDone =>
        /\ planArg \in DOMAIN targetLengths => planOut.chunks = targetLengths[planArg]
        /\ planArg \in DOMAIN capabilities => planOut.chunks = capabilities[planArg]
        /\ planArg >= 100000 => planOut.chunks >= epicStoriesChunks
\* exactly 60000 characters have been planned as the documented 12 chunks
C21_Witness ==
    /\ planDone
    /\ planArg = 60000
    /\ planOut.chunks = 12
    /\ targetLengths[planArg] = 12

\* C22: a request for 10000 characters whose calls all succeed: the plan has 2
\* chunks; the first prompt built is the opening prompt; the prompt of part 2
\* is a continuation prompt whose context is an excerpt of the text of part 1
\* of at most 1500 characters, with the RESOLUTION & CLOSURE directive and the
\* ending requirements; and achieved is true exactly when the joined story has
\* at least 9500 characters.
C22_EndToEndTenThousand ==
    \A s \in Sessions :
        (valid[s] /\ targetLength[s] = 10000) =>
            /\ config[s].chunks = 2
            /\ Len(prompts[s]) = IF InCall(s) THEN i[s] + 1 ELSE Len(prompts[s])
            /\ Len(prompts[s]) >= 1 =>
                /\ prompts[s][1].kind = "first"
                /\ prompts[s][1].partNum = 1
            /\ Len(prompts[s]) >= 2 =>
                /\ Len(chunks[s]) >= 1
                /\ prompts[s][2].kind = "continuation"
                /\ textLength(prompts[s][2].context) <= 1500
                /\ IsPieceOf(prompts[s][2].context, TextBody(chunks[s][1]))
                /\ prompts[s][2].goal = "RESOLUTION & CLOSURE"
                /\ prompts[s][2].closing
            /\ Len(chunks[s]) = 2 =>
                /\ pc[s] = "done"
                /\ Len(prompts[s]) = 2
                /\ mode[s] = "batch" =>
                        reply[s].success /\ reply[s].achieved = (reply[s].totalChars >= 9500)
                /\ mode[s] = "stream" =>
                        Last(events[s]).achieved = (Last(events[s]).chars >= 9500)
\* texts of 4000 and 5498 characters were generated: the prompt of part 2 carried
\* the 1398 characters after the last sentence end of part 1, and the story of
\* 9500 characters is reported as achieved
C22_Witness ==
    \E s \in Sessions :
        /\ mode[s] = "batch"
        /\ targetLength[s] = 10000
        /\ chunks[s] = <<"A", "B">>
        /\ prompts[s][2].context = <<[c |-> "x", n |-> 1398]>>
        /\ prompts[s][2].closing
        /\ reply[s].totalChars = 9500
        /\ reply[s].achieved

\* C23: when an attempt of callGeminiAPI fails with a 429 and the pool holds
\* more than one credential, the next attempt of the same call is posted with
\* a credential other than the one that was rate limited.
C23_RetryWithAnotherKey ==
    \A s \in Sessions :
        \A k \in 1..Len(responses[s]) :
            (/\ responses[s][k].status = 429
             /\ Len(apiKeys) > 1
             /\ Len(keysUsed[s]) > k)
            => keysUsed[s][k + 1] # keysUsed[s][k]

\* C24: within one callGeminiAPI the backoff delays grow strictly: each delay
\* is longer than the one taken before it, whatever mix of 429, 5xx and
\* timeout failures caused them.
C24_DelaysStrictlyIncrease ==
    \A s \in Sessions :
        \A j \in 1..(Len(delays[s]) - 1) : delays[s][j] < delays[s][j + 1]

\* C25: whatever the interleaving of concurrent sessions, every getNextApiKey
\* is atomic with respect to the cursor: successive acquires read successive
\* cursor values (none is read twice in a row, so no update is lost), the
\* cursor stays in 0..N-1, and after any number of acquires the numbers of
\* times two credentials were returned differ by at most one.
C25_AcquireAtomic ==
    LET n == Len(apiKeys)
    IN  /\ n > 0 => currentKeyIndex \in 0..(n - 1)
        /\ \A j \in 1..(Len(acquired) - 1) :
               acquired[j + 1].cursor = (acquired[j].cursor + 1) % n
        /\ Len(acquired) > 0 =>
               currentKeyIndex = (Last(acquired).cursor + 1) % n
        /\ \A a, b \in 1..n :
               handed[a] - handed[b] \in {-1, 0, 1}

\* two sessions are in a call at the same time, each with its own credential,
\* and the pool has handed out three credentials in all
C25_Witness ==
    /\ Len(apiKeys) = 2
    /\ \E s, t \in Sessions :
           /\ s # t
           /\ pc[s] = "inflight" /\ pc[t] = "inflight"
           /\ apiKey[s] # apiKey[t]
           /\ i[s] = 1 /\ i[t] = 0
    /\ handed[1] + handed[2] = 3

\* C26: provided every attempt ends, a session that has begun ends: its
\* handler reaches its end having sent the reply or the terminal event, after
\* no more than chunks * maxRetries posts in all; and every callGeminiAPI ends,
\* returning a text that is not empty or throwing an error.
C26_SessionsTerminate ==
    /\ \A s \in 1..MaxSessions :
           /\ (pc[s] # "idle") ~> (pc[s] = "done")
           /\ (pc[s] \in {"inflight", "waiting"}) ~> (pc[s] \in {"returned", "threw"})
    /\ [](\A s \in Sessions :
              /\ valid[s] => posts[s] <= config[s].chunks * maxRetries
              /\ pc[s] = "returned" => result[s] # ""
              /\ pc[s] = "threw" => error[s] # NoError
              /\ pc[s] = "done" /\ valid[s] =>
                     IF mode[s] = "batch" THEN reply[s] # NoReply
                     ELSE events[s] # <<>> /\ Terminal(Last(events[s])))

\* a story completed with every one of its chunks * maxRetries posts used
C26_Witness ==
    \E s \in Sessions :
        /\ pc[s] = "done"
        /\ Completed(s)
        /\ posts[s] = config[s].chunks * maxRetries

\* C27: the prompt built for part k carries the closing checklist exactly
\* when k is the number of parts of the plan; so the opening prompt never
\* carries it, and a session that completed has built exactly one prompt
\* with the checklist, its last one.
C27_ChecklistOnlyInLastPrompt ==
    \A s \in Sessions :
        /\ \A k \in 1..Len(prompts[s]) :
               /\ prompts[s][k].partNum = k
               /\ prompts[s][k].closing <=> (k = config[s].chunks)
               /\ prompts[s][k].kind = "first" => ~prompts[s][k].closing
        /\ Completed(s) /\ pc[s] = "done" =>
               /\ Len(prompts[s]) = config[s].chunks
               /\ Cardinality({k \in 1..Len(prompts[s]) : prompts[s][k].closing}) = 1
               /\ Last(prompts[s]).closing

\* a story of six parts completed
C27_Witness ==
    \E s \in Sessions :
        /\ pc[s] = "done"
        /\ Completed(s)
        /\ config[s].chunks = 6
        /\ Len(prompts[s]) = 6

\* the sum of the chars fields of the events of a sequence
RECURSIVE SumChars(_)
SumChars(ev) == IF ev = <<>> THEN 0 ELSE Head(ev).chars + SumChars(Tail(ev))

\* the chunk events among the events written to session s
ChunkEvents(s) == SelectSeq(events[s], LAMBDA e : e.type = "chunk")

\* C28: on completion the story is the texts in the order they were generated,
\* joined with the two-character separator: totalChars is the sum of their
\* lengths plus 2 * (chunks - 1). On a stream the chars of the chunk events
\* plus 2 * (chunks - 1) add up to the totalChars of the complete event, and
\* there are as many chunk events as the totalChunks of the init event.
C28_TotalsAddUp ==
    \A s \in Sessions :
        pc[s] = "done" /\ Completed(s) =>
            LET count == config[s].chunks
            IN  IF mode[s] = "batch"
                THEN /\ reply[s].script = chunks[s]
                     /\ Len(reply[s].script) = count
                     /\ reply[s].totalChars = SumLen(reply[s].script) + 2 * (count - 1)
                ELSE /\ StreamedTexts(events[s]) = chunks[s]
                     /\ Last(events[s]).type = "complete"
                     /\ SumChars(ChunkEvents(s)) + 2 * (count - 1) = Last(events[s]).chars
                     /\ events[s][1].type = "init"
                     /\ Len(ChunkEvents(s)) = events[s][1].chunk

\* a streamed story of six parts completed with texts of both lengths
C28_Witness ==
    \E s \in Sessions :
        /\ pc[s] = "done"
        /\ Completed(s)
        /\ mode[s] = "stream"
        /\ config[s].chunks = 6
        /\ chunks[s] = <<"A", "B", "B", "A", "A", "B">>
        /\ Last(events[s]).chars = 3 * 4000 + 3 * 5498 + 10

\* C29: the context in the prompt of part k+1 is the excerpt of the text of
\* part k alone, and the character tracker is computed once, from the text of
\* part 1 when the prompt of part 2 is built, and handed unchanged to every
\* later prompt of the session.
C29_ContextFromPreviousPartOnly ==
    \A s \in Sessions :
        /\ \A k \in 2..Len(prompts[s]) :
               /\ prompts[s][k].context = contextFor(variant, TextBody(chunks[s][k - 1]))
               /\ prompts[s][k].tracker = extractCharacterInfo(Matches(chunks[s][1]))
               /\ characterTracker[s] = prompts[s][k].tracker
        /\ trackerRuns[s] = IF Len(prompts[s]) >= 2 THEN 1 ELSE 0
        /\ Len(prompts[s]) = 1 => prompts[s][1].context = <<>> /\ prompts[s][1].tracker = <<>>

\* the prompt of part 4 of a six-part story has been built: parts 1 and 3
\* differ, so do their excerpts, and part 1 named two characters
C29_Witness ==
    \E s \in Sessions :
        /\ Len(prompts[s]) = 4
        /\ chunks[s] = <<"A", "B", "B">>
        /\ contextOfText["index.js", "A"] # contextOfText["index.js", "B"]
        /\ Len(characterTracker[s]) = 2
        /\ trackerRuns[s] = 1

\* The text out is the beginning of the text w.
IsStartOf(out, w) ==
    \/ out = <<>>
    \/ /\ Len(out) <= Len(w)
       /\ \A h \in 1..Len(out) : out[h].c = w[h].c
       /\ \A h \in 1..(Len(out) - 1) : out[h].n = w[h].n
       /\ out[Len(out)].n <= w[Len(out)].n

C31_PromptStatesPerChunkTarget ==
    /\ planDone =>
           /\ Len(planStated) = planOut.chunks
           /\ \A k \in 1..Len(planStated) : planStated[k] = {planOut.charsPerChunk}
    /\ \A s \in Sessions :
           \A k \in 1..Len(prompts[s]) : prompts[s][k].targets = {config[s].charsPerChunk}

\* the twenty prompts of the plan for 100000 characters each state 5500
C31_Witness ==
    /\ planDone
    /\ planArg = 100000
    /\ Len(planStated) = 20
    /\ planStated[1] = {5500}
    /\ planStated[20] = {5500}

\* how many of the matches are the word w, and where w first appears
Occurrences(matches, w) == Cardinality({j \in 1..Len(matches) : matches[j] = w})
FirstAt(matches, w) == CHOOSE j \in 1..Len(matches) :
                            matches[j] = w /\ \A h \in 1..(j - 1) : matches[h] # w
\* w comes before u in the ranking: more mentions, or as many and seen first
RanksBefore(matches, w, u) ==
    \/ Occurrences(matches, w) > Occurrences(matches, u)
    \/ /\ Occurrences(matches, w) = Occurrences(matches, u)
       /\ FirstAt(matches, w) < FirstAt(matches, u)
\* the candidates that are not on the stoplist and are mentioned at least twice
Recurring(matches) ==
    {w \in {matches[j] : j \in 1..Len(matches)} :
        w \notin excludeWords /\ Occurrences(matches, w) >= 2}

\* C32: extractCharacterInfo returns at most 5 names; each is a candidate that
\* is not on the stoplist and occurs at least twice; they are the first of the
\* ranking by descending number of occurrences, ties in order of first
\* appearance; and nothing is returned exactly when no candidate occurs twice.
C32_TopRecurringNames ==
    namesDone =>
        LET out == namesOut
            rec == Recurring(namesIn)
        IN  /\ Len(out) <= 5
            /\ \A j \in 1..Len(out) : out[j] \in rec
            /\ \A j, h \in 1..Len(out) : j < h => RanksBefore(namesIn, out[j], out[h])
            /\ \A w \in rec :
                   (\A j \in 1..Len(out) : out[j] # w) =>
                       Len(out) = 5 /\ RanksBefore(namesIn, out[5], w)
            /\ (out = <<>>) <=> (rec = {})

\* six names recur, two of them three times: the two come first, then the
\* first three of the others, and the sixth name is left out
C32_Witness ==
    /\ namesDone
    /\ namesIn = <<"Anna", "Ben", "Cara", "Dara", "Ed", "Fay", "The",
                   "The", "Fay", "Ed", "Dara", "Cara", "Ben", "Anna",
                   "Cara", "Ed", "The">>
    /\ namesOut = <<"Cara", "Ed", "Anna", "Ben", "Dara">>

\* C33: once the client has closed its stream the session starts no further
\* part: no new prompt is built and posted, only the call in flight goes on to
\* its end.
C33_NoPartStartedAfterClose ==
    [][\A s \in 1..MaxSessions :
           (s \in Sessions /\ closed[s]) => Len(prompts'[s]) = Len(prompts[s])]_vars

\* the stages of the arc in their order, and the place of a directive in it
ArcOrder ==
    <<"HOOK & SETUP", "RISING ACTION", "COMPLICATIONS & STAKES", "MIDPOINT CRISIS",
      "ESCALATION & DARKNESS", "CLIMAX & CONFRONTATION", "RESOLUTION & CLOSURE">>
ArcPlace(goal) == CHOOSE j \in 1..Len(ArcOrder) : ArcOrder[j] = goal

\* C34: in every plan getChunkConfig can produce (2, 6, 12, 20 or 25 parts)
\* part 1 is given the HOOK & SETUP stage, and no part is given a stage that
\* comes earlier in the arc than the stage of a part before it.
C34_FirstPartOpensAndStagesAdvance ==
    (stageDone /\ stageTotal \in {2, 6, 12, 20, 25}) =>
        /\ stagePart = 1 => stageOut = "HOOK & SETUP"
        /\ \A k \in 1..stagePart :
               ArcPlace(getSectionGoal(k, stageTotal)) <= ArcPlace(stageOut)

\* C35: the error callGeminiAPI throws follows the cause: the failed-after-N-
\* attempts error only when all maxRetries posts failed transiently; when the
\* last post failed with a 4xx other than 429 or with a response without text,
\* on whichever attempt, the error thrown is that failure itself.
C35_ErrorKindFollowsCause ==
    \A s \in Sessions :
        (pc[s] = "threw" /\ responses[s] # <<>>) =>
            LET rs == responses[s]
                r == Last(rs)
            IN  /\ error[s].kind = "FailedAfter" =>
                       Len(rs) = maxRetries /\ AllTransient(rs, Len(rs))
                /\ ClientError(r) => error[s] = AxiosError(r)
                /\ r = Ok("") => error[s] = InvalidFormatError

====
